---- MODULE Spec2Model ----
(***************************************************************************)
(* CASPaxos as implemented in casPaxos.py: Proposer rounds (receive,       *)
(* send_prepare, send_accept) against a list of Acceptor objects           *)
(* (prepare, accept).  Every Acceptor.prepare / Acceptor.accept call is    *)
(* one atomic step; the rounds of different Proposers interleave between   *)
(* those calls.                                                            *)
(***************************************************************************)
EXTENDS Integers, Sequences, FiniteSets, TLC

\* ------------------------------------------------------------------ bounds
\* longest acceptor list handed to Proposer.__init__ (the lists 1..n, n >= 1)
MaxAcceptors == 3
\* number of Proposer objects sharing the acceptor list
NumProposers == 2
\* upper end of random.randint(notLessThan + 1, 100), scaled down
MaxBallot == 2
\* receive() calls over all Proposers together
MaxRounds == 3

Proposers == 1..NumProposers
Ballots == 1..MaxBallot

\* the change functions a client hands to receive(f)
Funcs == {"change_func", "read_func", "neg_func"}

\* the new_state values handed to Acceptor.accept when it is called directly
Values == {0 - 3, 0, 3}

VARIABLES
    acceptors,       \* Proposer.acceptors: the list a1..an, as its length n
    promise,         \* Acceptor.promise, per acceptor
    accepted,        \* Acceptor.accepted, per acceptor: <<value, ballot>>
    state,           \* Proposer.state, per proposer
    pc,              \* where each Proposer is inside receive()
    f,               \* the change function of the round in progress
    ballot_number,   \* the ballot of the round in progress
    idx,             \* position of the for loop over self.acceptors
    confirmations,   \* send_prepare's list of non-conflicting replies
    acceptations,    \* send_accept's list of non-conflicting replies
    slept,           \* the proposer has reached time.sleep(5) in a wait loop
    ballots,         \* history: ballots returned by generate_ballot_number
    prior,           \* history: highest ballot returned to a client before this round began
    returned,        \* history: the rounds whose receive() returned
    votes,           \* history: every pair each acceptor ever stored in accepted
    promised,        \* history: highest ballot each acceptor ever set as its promise
    last             \* history: the latest Acceptor call, its arguments and reply

vars == <<acceptors, promise, accepted, state, pc, f, ballot_number, idx,
          confirmations, acceptations, slept, ballots, prior, returned, votes,
          promised, last>>

propVars == <<state, pc, f, ballot_number, idx, confirmations, acceptations,
              slept, ballots, prior, returned>>

Acceptors == 1..acceptors

\* ------------------------------------------------------- Proposer.__init__
\* F taken as all acceptors but one: the wait loops need every acceptor's reply
FEveryAcceptor == acceptors - 1

\* F one too small: the wait loops break with F replies instead of F + 1
FOneLess == ((acceptors - 1) \div 2) - 1

\* self.F = (len(self.acceptors) - 1) / 2, integer division
F == (acceptors - 1) \div 2

\* ---------------------------------------------------------- change functions
change_func(s) == s + 3
read_func(s) == s
neg_func(s) == 0 - s

Apply(fn, s) ==
    CASE fn = "change_func" -> change_func(s)
      [] fn = "read_func" -> read_func(s)
      [] fn = "neg_func" -> neg_func(s)

\* ------------------------------------------------------------------ Acceptor
NoCall == [op |-> "none", acceptor |-> 0, ballot_number |-> 0, new_state |-> 0,
           promise |-> 0, accepted |-> <<0, 0>>, reply |-> "none"]

\* prepare with the comparison widened to "not greater": an equal ballot conflicts
PrepareConflictOnEqual(prom, b) == prom >= b

\* prepare: if self.promise > ballot_number: return CONFLICT
PrepareConflict(prom, b) == prom > b

\* accept without its elif branch: only the promise is compared
AcceptConflictPromiseOnly(prom, acc, b) == prom > b

\* accept with its elif widened to "not greater": an equal accepted ballot conflicts
AcceptConflictOnEqual(prom, acc, b) == prom > b \/ acc[2] >= b

\* accept without its first branch: only the accepted ballot is compared
AcceptConflictAcceptedOnly(prom, acc, b) == acc[2] > b

\* accept: if self.promise > ballot_number ... elif self.accepted[1] > ballot_number
AcceptConflict(prom, acc, b) == prom > b \/ acc[2] > b

\* prepare that replies without storing the ballot as its promise
prepareWithoutPersisting(a, b) ==
    /\ UNCHANGED <<promise, promised, accepted, votes>>
    /\ last' = [op |-> "prepare", acceptor |-> a, ballot_number |-> b, new_state |-> 0,
                promise |-> promise[a], accepted |-> accepted[a],
                reply |-> IF PrepareConflict(promise[a], b) THEN "CONFLICT" ELSE "PROMISE"]

\* Acceptor.prepare(ballot_number) on acceptor a
prepare(a, b) ==
    /\ IF PrepareConflict(promise[a], b)
       THEN UNCHANGED <<promise, promised>>
       ELSE /\ promise' = [promise EXCEPT ![a] = b]
            /\ promised' = [promised EXCEPT ![a] = IF b > @ THEN b ELSE @]
    /\ UNCHANGED <<accepted, votes>>
    /\ last' = [op |-> "prepare", acceptor |-> a, ballot_number |-> b, new_state |-> 0,
                promise |-> promise[a], accepted |-> accepted[a],
                reply |-> IF PrepareConflict(promise[a], b) THEN "CONFLICT" ELSE "PROMISE"]

\* Acceptor.accept(ballot_number, new_state) on acceptor a
accept(a, b, v) ==
    /\ IF AcceptConflict(promise[a], accepted[a], b)
       THEN UNCHANGED <<promise, accepted, votes, promised>>
       ELSE /\ promise' = [promise EXCEPT ![a] = 0]
            /\ UNCHANGED promised
            /\ accepted' = [accepted EXCEPT ![a] = <<v, b>>]
            /\ votes' = [votes EXCEPT ![a] = @ \cup {<<v, b>>}]
    /\ last' = [op |-> "accept", acceptor |-> a, ballot_number |-> b, new_state |-> v,
                promise |-> promise[a], accepted |-> accepted[a],
                reply |-> IF AcceptConflict(promise[a], accepted[a], b)
                          THEN "CONFLICT" ELSE "CONFIRM"]

\* ------------------------------------------------------------------ Proposer
\* sum(total_list_of_confirmation_values)
RECURSIVE SumValues(_)
SumValues(confs) ==
    IF confs = <<>> THEN 0 ELSE Head(confs)[1] + SumValues(Tail(confs))

\* ballots = sorted(ballots); highestBallot = ballots[len(ballots) - 1]
HighestBallot(confs) ==
    CHOOSE b \in {confs[i][2] : i \in 1..Len(confs)} :
        \A i \in 1..Len(confs) : confs[i][2] <= b

\* for i in confirmations: if i[1] == highestBallot: return i
get_highest_confirmation(confs) ==
    LET first == CHOOSE i \in 1..Len(confs) :
                    /\ confs[i][2] = HighestBallot(confs)
                    /\ \A j \in 1..(i - 1) : confs[j][2] # HighestBallot(confs)
    IN confs[first]

\* send_prepare that always takes the empty state, whatever the replies hold
DeriveStateEmpty(confs) == 0

\* the state send_prepare leaves in self.state
DeriveState(confs) ==
    IF SumValues(confs) = 0
    THEN 0
    ELSE get_highest_confirmation(confs)[1]

\* receive() calls made so far by the proposers in S
RECURSIVE RoundsOf(_)
RoundsOf(S) ==
    IF S = {} THEN 0
    ELSE LET p == CHOOSE q \in S : TRUE
         IN Len(ballots[p]) + RoundsOf(S \ {p})

RoundsStarted == RoundsOf(Proposers)

\* highest ballot among the rounds that have returned so far (0 when none)
HighestReturned ==
    IF returned = {} THEN 0
    ELSE CHOOSE b \in {r.ballot : r \in returned} : \A r \in returned : r.ballot <= b

\* receive(f): ballot_number = self.generate_ballot_number(), then send_prepare begins
Receive(p, fn, b) ==
    /\ pc[p] = "idle"
    /\ RoundsStarted < MaxRounds
    /\ f' = [f EXCEPT ![p] = fn]
    /\ ballot_number' = [ballot_number EXCEPT ![p] = b]
    /\ ballots' = [ballots EXCEPT ![p] = Append(@, b)]
    /\ prior' = [prior EXCEPT ![p] = HighestReturned]
    /\ confirmations' = [confirmations EXCEPT ![p] = <<>>]
    /\ idx' = [idx EXCEPT ![p] = 1]
    /\ pc' = [pc EXCEPT ![p] = "send_prepare"]
    /\ UNCHANGED <<acceptors, promise, accepted, state, acceptations, slept,
                   returned, votes, promised, last>>

\* send_prepare: one iteration of the for loop over self.acceptors
SendPrepare(p) ==
    /\ pc[p] = "send_prepare"
    /\ LET a == idx[p]
           b == ballot_number[p]
       IN /\ prepare(a, b)
          /\ confirmations' =
                IF PrepareConflict(promise[a], b)
                THEN confirmations
                ELSE [confirmations EXCEPT ![p] = Append(@, accepted[a])]
          /\ idx' = [idx EXCEPT ![p] = a + 1]
          /\ pc' = [pc EXCEPT ![p] = IF a = acceptors THEN "prepare_wait" ELSE "send_prepare"]
    /\ UNCHANGED <<acceptors, state, f, ballot_number, acceptations, slept,
                   ballots, prior, returned>>

\* send_prepare: the wait loop breaks and self.state is derived
PrepareQuorum(p) ==
    /\ pc[p] = "prepare_wait"
    /\ Len(confirmations[p]) >= F + 1
    /\ state' = [state EXCEPT ![p] = DeriveState(confirmations[p])]
    /\ pc' = [pc EXCEPT ![p] = "apply"]
    /\ UNCHANGED <<acceptors, promise, accepted, f, ballot_number, idx, confirmations,
                   acceptations, slept, ballots, prior, returned, votes, promised, last>>

\* send_prepare: the wait loop sleeps and checks again
PrepareSleep(p) ==
    /\ pc[p] = "prepare_wait"
    /\ ~(Len(confirmations[p]) >= F + 1)
    /\ slept' = [slept EXCEPT ![p] = TRUE]
    /\ UNCHANGED <<acceptors, promise, accepted, state, pc, f, ballot_number, idx,
                   confirmations, acceptations, ballots, prior, returned, votes, promised, last>>

\* send_accept: self.state = f(self.state); acceptations = []
ApplyChange(p) ==
    /\ pc[p] = "apply"
    /\ state' = [state EXCEPT ![p] = Apply(f[p], state[p])]
    /\ acceptations' = [acceptations EXCEPT ![p] = <<>>]
    /\ idx' = [idx EXCEPT ![p] = 1]
    /\ pc' = [pc EXCEPT ![p] = "send_accept"]
    /\ UNCHANGED <<acceptors, promise, accepted, f, ballot_number, confirmations,
                   slept, ballots, prior, returned, votes, promised, last>>

\* send_accept: one iteration of the for loop over self.acceptors
SendAccept(p) ==
    /\ pc[p] = "send_accept"
    /\ LET a == idx[p]
           b == ballot_number[p]
       IN /\ accept(a, b, state[p])
          /\ acceptations' =
                IF AcceptConflict(promise[a], accepted[a], b)
                THEN acceptations
                ELSE [acceptations EXCEPT ![p] = Append(@, "CONFIRM")]
          /\ idx' = [idx EXCEPT ![p] = a + 1]
          /\ pc' = [pc EXCEPT ![p] = IF a = acceptors THEN "accept_wait" ELSE "send_accept"]
    /\ UNCHANGED <<acceptors, state, f, ballot_number, confirmations, slept,
                   ballots, prior, returned>>

\* send_accept: the wait loop breaks and receive returns self.state
AcceptQuorum(p) ==
    /\ pc[p] = "accept_wait"
    /\ Len(acceptations[p]) >= F + 1
    /\ returned' = returned \cup
          {[proposer |-> p, round |-> Len(ballots[p]), ballot |-> ballot_number[p],
            f |-> f[p], prior |-> prior[p], confirmations |-> confirmations[p],
            promises |-> Len(confirmations[p]), confirms |-> Len(acceptations[p]),
            order |-> Cardinality(returned) + 1, result |-> state[p]]}
    /\ pc' = [pc EXCEPT ![p] = "idle"]
    /\ UNCHANGED <<acceptors, promise, accepted, state, f, ballot_number, idx,
                   confirmations, acceptations, slept, ballots, prior, votes, promised, last>>

\* send_accept: the wait loop sleeps and checks again
AcceptSleep(p) ==
    /\ pc[p] = "accept_wait"
    /\ ~(Len(acceptations[p]) >= F + 1)
    /\ slept' = [slept EXCEPT ![p] = TRUE]
    /\ UNCHANGED <<acceptors, promise, accepted, state, pc, f, ballot_number, idx,
                   confirmations, acceptations, ballots, prior, returned, votes, promised, last>>

\* --------------------------------------------------------------- the system
Init ==
    /\ acceptors \in 1..MaxAcceptors
    /\ promise = [a \in 1..acceptors |-> 0]
    /\ accepted = [a \in 1..acceptors |-> <<0, 0>>]
    /\ votes = [a \in 1..acceptors |-> {}]
    /\ promised = [a \in 1..acceptors |-> 0]
    /\ last = NoCall
    /\ state = [p \in Proposers |-> 0]
    /\ pc = [p \in Proposers |-> "idle"]
    /\ f = [p \in Proposers |-> "read_func"]
    /\ ballot_number = [p \in Proposers |-> 0]
    /\ idx = [p \in Proposers |-> 1]
    /\ confirmations = [p \in Proposers |-> <<>>]
    /\ acceptations = [p \in Proposers |-> <<>>]
    /\ slept = [p \in Proposers |-> FALSE]
    /\ ballots = [p \in Proposers |-> <<>>]
    /\ prior = [p \in Proposers |-> 0]
    /\ returned = {}

Next ==
    \/ \E p \in Proposers, fn \in Funcs, b \in Ballots : Receive(p, fn, b)
    \/ \E p \in Proposers : SendPrepare(p)
    \/ \E p \in Proposers : PrepareQuorum(p)
    \/ \E p \in Proposers : PrepareSleep(p)
    \/ \E p \in Proposers : ApplyChange(p)
    \/ \E p \in Proposers : SendAccept(p)
    \/ \E p \in Proposers : AcceptQuorum(p)
    \/ \E p \in Proposers : AcceptSleep(p)

Spec == Init /\ [][Next]_vars

\* A caller that holds the Acceptor objects and calls prepare / accept directly,
\* in any order and with any arguments (ballot 0 is never issued).
CallPrepare(a, b) ==
    /\ prepare(a, b)
    /\ UNCHANGED <<acceptors, propVars>>

CallAccept(a, b, v) ==
    /\ accept(a, b, v)
    /\ UNCHANGED <<acceptors, propVars>>

AcceptorNext ==
    \/ \E a \in Acceptors, b \in Ballots : CallPrepare(a, b)
    \/ \E a \in Acceptors, b \in Ballots, v \in Values : CallAccept(a, b, v)

\* one Acceptor object, as constructed by Acceptor(name)
AcceptorInit == Init /\ acceptors = 1

AcceptorSpec == AcceptorInit /\ [][AcceptorNext]_vars

\* The rounds under the scheduling the code has: a Proposer inside receive()
\* keeps running (its for loops advance, its wait loops re-check).
Step(p) ==
    \/ SendPrepare(p)
    \/ PrepareQuorum(p)
    \/ PrepareSleep(p)
    \/ ApplyChange(p)
    \/ SendAccept(p)
    \/ AcceptQuorum(p)
    \/ AcceptSleep(p)

FairSpec == Spec /\ \A p \in Proposers : WF_vars(Step(p))

\* The rounds of clients that all submit change_func, under the same scheduling.
ChangeNext ==
    \/ \E p \in Proposers, b \in Ballots : Receive(p, "change_func", b)
    \/ \E p \in Proposers : Step(p)

ChangeSpec == Init /\ [][ChangeNext]_vars /\ \A p \in Proposers : WF_vars(Step(p))

\* Clients that submit one change at a time (the demo driver's
\* p.receive(change_func) calls): receive is called only when no round is
\* making calls, every earlier round having returned or being asleep in a wait
\* loop, which it never leaves.
SeqReceive(p, fn, b) ==
    /\ \A q \in Proposers : pc[q] = "idle" \/ slept[q]
    /\ Receive(p, fn, b)

\* one ballot more than in the interleaved runs, which the shorter runs afford
SeqBallots == 1..(MaxBallot + 1)

SeqNext ==
    \/ \E p \in Proposers, fn \in Funcs, b \in SeqBallots : SeqReceive(p, fn, b)
    \/ \E p \in Proposers : Step(p)

SeqSpec == Init /\ [][SeqNext]_vars

\* ------------------------------------------------------------------ claims
\* quorum the protocol requires of n acceptors: floor(n/2) + 1
Majority == (acceptors \div 2) + 1

\* what a returned round computed its new state from: the value send_prepare
\* left in self.state, and the highest accepted ballot among the replies
Baseline(r) == <<DeriveState(r.confirmations), HighestBallot(r.confirmations)>>

\* C1: no two distinct successful rounds computed their new state from the
\* same baseline (the successful rounds form one chain).
C1_DistinctBaselines ==
    \A r1, r2 \in returned : r1 # r2 => Baseline(r1) # Baseline(r2)

\* C2: a round returns only if at least floor(N/2)+1 acceptors replied without
\* conflict in the prepare phase and in the accept phase, for every N.
C2_MajorityInBothPhases ==
    \A r \in returned : r.promises >= Majority /\ r.confirms >= Majority

\* C3: every round started by receive eventually ends.
C3_RoundEnds ==
    \A p \in Proposers : (pc[p] # "idle") ~> (pc[p] = "idle")

\* C4: the ballots of any two distinct rounds, of the same Proposer or of
\* different ones, are never equal.
C4_BallotsUnique ==
    \A p, q \in Proposers :
        \A i \in 1..Len(ballots[p]), j \in 1..Len(ballots[q]) :
            (p # q \/ i # j) => ballots[p][i] # ballots[q][j]

\* a majority of the acceptors has at some time stored <<v, b>> as accepted
EverChosen(v, b) ==
    Cardinality({a \in Acceptors : <<v, b>> \in votes[a]}) >= Majority

\* C5: for every ballot b at most one value is ever accepted under b by a
\* majority of the acceptors.
C5_OneValuePerBallot ==
    \A a1, a2 \in Acceptors :
        \A v1 \in votes[a1], v2 \in votes[a2] :
            (v1[2] = v2[2] /\ EverChosen(v1[1], v1[2]) /\ EverChosen(v2[1], v2[2]))
                => v1[1] = v2[1]

\* C6: a round that began after a round with ballot b1 had returned, and that
\* reached its prepare quorum, derives as baseline the value of a reply whose
\* accepted ballot is >= b1.
C6_SeesEarlierRound ==
    \A p \in Proposers :
        (pc[p] = "apply" /\ prior[p] > 0) =>
            \E i \in 1..Len(confirmations[p]) :
                /\ confirmations[p][i][2] >= prior[p]
                /\ state[p] = confirmations[p][i][1]

\* C7 as stated: prepare(ballot) returns a conflict whenever ballot <= promise,
\* the equal case included.
C7_ConflictWhenNotGreater ==
    (last.op = "prepare" /\ last.ballot_number <= last.promise)
        => last.reply = "CONFLICT"

\* C7 amended: prepare(ballot) returns a conflict exactly when ballot < promise;
\* with ballot = promise it keeps the promise and returns the accepted pair.
C7_ConflictExactlyWhenLess ==
    last.op = "prepare" =>
        /\ (last.reply = "CONFLICT") <=> (last.ballot_number < last.promise)
        /\ last.ballot_number = last.promise =>
              /\ last.reply = "PROMISE"
              /\ promise[last.acceptor] = last.ballot_number

C7_Witness ==
    /\ last.op = "prepare"
    /\ last.ballot_number = last.promise
    /\ last.reply = "PROMISE"

\* C8: accept(ballot, value) returns a conflict exactly when ballot < promise or
\* ballot < the accepted ballot; otherwise accepted becomes (value, ballot),
\* promise becomes 0 and the reply is a confirmation.
C8_AcceptContract ==
    last.op = "accept" =>
        IF last.ballot_number < last.promise \/ last.ballot_number < last.accepted[2]
        THEN /\ last.reply = "CONFLICT"
        ELSE /\ last.reply = "CONFIRM"
             /\ accepted[last.acceptor] = <<last.new_state, last.ballot_number>>
             /\ promise[last.acceptor] = 0

C8_Witness ==
    /\ last.op = "accept"
    /\ last.reply = "CONFIRM"
    /\ last.promise > 0
    /\ last.accepted[2] > 0
    /\ accepted[last.acceptor] # last.accepted

\* C9: once an acceptor has promised b, every later prepare or accept with a
\* ballot < b returns a conflict; and a call with ballot >= the promise held
\* succeeds or fails only by the accepted-ballot check.
C9_PromiseHoldsForever ==
    last.op # "none" =>
        /\ last.ballot_number < promised[last.acceptor] => last.reply = "CONFLICT"
        /\ last.ballot_number >= last.promise =>
              \/ last.reply # "CONFLICT"
              \/ (last.op = "accept" /\ last.accepted[2] > last.ballot_number)

\* C10: each ballot a Proposer generates is strictly greater than every ballot
\* it generated before (a conflict reply carries no ballot to observe).
C10_BallotsIncrease ==
    \A p \in Proposers :
        \A i, j \in 1..Len(ballots[p]) : i < j => ballots[p][i] < ballots[p][j]

PrecedingResult(r) ==
    IF r.order = 1 THEN 0
    ELSE (CHOOSE q \in returned : q.order = r.order - 1).result

\* C12: in a sequential run on a fresh cluster the first successful round returns
\* f(bottom) and every later successful round returns its f applied to the value
\* the preceding successful round returned.
C12_ChangesAccumulate ==
    \A r \in returned : r.result = Apply(r.f, PrecedingResult(r))

C12_Witness ==
    \E r1, r2 \in returned :
        /\ r1.order = 1 /\ r1.f = "read_func" /\ r1.result = 0
        /\ r2.order = 2 /\ r2.f = "change_func" /\ r2.result = 3

\* C13: a successful round whose change function is the identity returns the
\* current consensus value (the value of the reply with the highest accepted
\* ballot), stores that value on every confirming acceptor, and advances the
\* ballot stored with it there (strictly greater than the one before).
C13_ReadKeepsValueAdvancesBallot ==
    [][\A p \in Proposers :
          (/\ f[p] = "read_func"
           /\ pc[p] = "send_accept"
           /\ acceptations'[p] # acceptations[p]) =>
              /\ state[p] = get_highest_confirmation(confirmations[p])[1]
              /\ accepted'[idx[p]][1] = state[p]
              /\ accepted'[idx[p]][2] > accepted[idx[p]][2]]_vars

\* C14: accept(b, v) applied twice in a row to an acceptor leaves it with the
\* same promise and accepted pair, and gives the same reply, as applied once.
C14_AcceptIdempotent ==
    [][(/\ last.op = "accept"
        /\ last'.op = "accept"
        /\ last'.acceptor = last.acceptor
        /\ last'.ballot_number = last.ballot_number
        /\ last'.new_state = last.new_state) =>
           /\ promise' = promise
           /\ accepted' = accepted
           /\ last'.reply = last.reply]_vars

C14_Witness ==
    /\ last.op = "accept"
    /\ last.reply = "CONFIRM"
    /\ last.promise = 0
    /\ last.accepted = <<last.new_state, last.ballot_number>>

\* C15: a prepare or accept that returns a conflict leaves promise and accepted
\* as they were; an accept(b1, v1) on an acceptor whose accepted pair has a
\* ballot b2 > b1 returns a conflict and the stored pair stays.
C15_ConflictChangesNothing ==
    /\ last.reply = "CONFLICT" =>
          /\ promise[last.acceptor] = last.promise
          /\ accepted[last.acceptor] = last.accepted
    /\ (last.op = "accept" /\ last.accepted[2] > last.ballot_number) =>
          /\ last.reply = "CONFLICT"
          /\ accepted[last.acceptor] = last.accepted

C15_Witness ==
    /\ last.op = "accept"
    /\ last.reply = "CONFLICT"
    /\ last.promise = 0
    /\ last.accepted[2] > last.ballot_number
    /\ last.new_state # last.accepted[1]

\* C16: a prepare(ballot) that does not conflict sets promise to ballot, leaves
\* the accepted pair unchanged and hands its caller exactly the accepted pair
\* the acceptor held at the call.
C16_PromiseReply ==
    (last.op = "prepare" /\ last.reply = "PROMISE") =>
        /\ promise[last.acceptor] = last.ballot_number
        /\ accepted[last.acceptor] = last.accepted
        /\ \E p \in Proposers :
              /\ ballot_number[p] = last.ballot_number
              /\ confirmations[p] # <<>>
              /\ confirmations[p][Len(confirmations[p])] = last.accepted

C16_Witness ==
    /\ last.op = "prepare"
    /\ last.reply = "PROMISE"
    /\ last.accepted[2] > 0
    /\ last.promise < last.ballot_number

\* C17: the baseline a Proposer derives after the prepare phase is the value of
\* the reply with the highest accepted ballot, whatever the replies and values.
C17_BaselineIsHighestReply ==
    \A p \in Proposers :
        pc[p] = "apply" =>
            state[p] = get_highest_confirmation(confirmations[p])[1]

\* C18: the ballot of an acceptor's accepted pair never decreases.
C18_AcceptedBallotMonotone ==
    [][\A a \in Acceptors : accepted'[a][2] >= accepted[a][2]]_vars

C18_Witness ==
    /\ last.op = "accept"
    /\ last.promise = 0
    /\ last.accepted[2] = 2
    /\ last.ballot_number = 1
    /\ accepted[last.acceptor][2] = 2

Max(x, y) == IF x >= y THEN x ELSE y

\* C20: for each acceptor max(promise, accepted ballot) never decreases: a
\* confirmed accept erases the promise but records a ballot at least as high,
\* and an accept below any promise the acceptor ever granted is refused.
C20_EffectiveBoundMonotone ==
    [][/\ \A a \in Acceptors :
             /\ Max(promise'[a], accepted'[a][2]) >= Max(promise[a], accepted[a][2])
             /\ (promise'[a] = 0 /\ promise[a] > 0) => accepted'[a][2] >= promise[a]
       /\ (last'.op = "accept" /\ last'.ballot_number < promised[last'.acceptor])
             => last'.reply = "CONFLICT"]_vars

C20_Witness ==
    /\ last.op = "accept"
    /\ last.reply = "CONFLICT"
    /\ last.promise = 0
    /\ last.ballot_number < promised[last.acceptor]

====
